---- MODULE Spec2Model ----
(***************************************************************************)
(* Model of package lmdbsync (exp/lmdbsync/lmdbsync.go): an Env that wraps *)
(* an *lmdb.Env, serialises transactions and map-size changes through one  *)
(* sync.RWMutex (txnlock), tracks the lmdb.NoLock flag (noLock) and        *)
(* retries transactions that fail with lmdb.MapResized.                    *)
(*                                                                         *)
(* Three specifications share the variables and the actions:               *)
(*   Spec       goroutines 1..NProcs calling View, Update, UpdateLocked,   *)
(*              RunTxn and SetMapSize concurrently on one Env;             *)
(*   SpecRetry  one goroutine, every retry configuration and body script;  *)
(*   SpecFlags  NewEnv, Open, SetFlags and UnsetFlags (environment setup). *)
(* The package lmdb itself (the engine) is not part of lmdbsync.go; the    *)
(* Engine* definitions model it from the specification's section 6.        *)
(***************************************************************************)
EXTENDS Integers, FiniteSets, Sequences, TLC

\* ------------------------------------------------------------- bounds
\* Number of goroutines calling into one Env concurrently (Spec).
NProcs == 3
\* Longest run of MapResized results of a body under SpecRetry.
MaxFails == 5
\* Largest value of Env.RetryResize tried under SpecRetry.
MaxRetry == 3

\* ------------------------------------------------------------- values
Procs == 1 .. NProcs

\* error values: nil, lmdb.MapResized, and two errnos (EINVAL, and any other)
OK == "nil"
MapResized == "MapResized"
EINVAL == "EINVAL"
EACCES == "EACCES"

\* lmdb.NoLock and one other environment flag bit; a flags word is the set
\* of its bits, flags&lmdb.NoLock != 0 is membership.
NoLock == "NoLock"
NoSync == "NoSync"
FlagWords == SUBSET {NoLock, NoSync}

\* var DefaultDelayRepeatResize = time.Millisecond (in milliseconds)
DefaultDelayRepeatResize == 1

\* Env.DelayRepeatResize == nil
NilFn == << >>
\* delay functions tried: constant zero, and growing with the attempt
DelayFns == {[j \in 0 .. MaxRetry |-> 0], [j \in 0 .. MaxRetry |-> 2 * j]}

VARIABLES
    pc,                  \* pc[p]: where goroutine p is in its call
    call,                \* call[p]: the locals of p's call
    txnlock,             \* Env.txnlock, a sync.RWMutex
    engWriter,           \* the engine's writer mutex: the set of its owners
    noLock,              \* Env.noLock
    RetryResize,         \* Env.RetryResize
    DefaultRetryResize,  \* package variable DefaultRetryResize
    DelayRepeatResize,   \* Env.DelayRepeatResize (NilFn or a function)
    engine,              \* the wrapped *lmdb.Env: allocated, open, flags
    wrapped,             \* NewEnv has returned an Env
    lastCall             \* the last NewEnv/Open/SetFlags/UnsetFlags call

vars == <<pc, call, txnlock, engWriter, noLock, RetryResize,
          DefaultRetryResize, DelayRepeatResize, engine, wrapped, lastCall>>

confVars == <<noLock, RetryResize, DefaultRetryResize, DelayRepeatResize,
              engine, wrapped, lastCall>>

\* ------------------------------------------------------ sync.RWMutex
\* w: the goroutines (at most one) that own the writer side, having called
\* Lock and not yet Unlock; wheld: the owner's Lock has returned; readers:
\* the goroutines whose RLock has returned.  A Lock call first takes the writer
\* side, which makes later RLock calls wait, then waits for the readers
\* that hold the lock to leave; with no reader it returns at once.
FreeLock == [w |-> {}, wheld |-> FALSE, readers |-> {}]

\* RLock returns only while no goroutine owns the writer side
CanRLock == txnlock.w = {}

\* Lock takes the writer side only while no goroutine owns it
CanLock == txnlock.w = {}

AfterRLock(p) == [txnlock EXCEPT !.readers = @ \cup {p}]

AfterLockRequest(p) ==
    [txnlock EXCEPT !.w = {p}, !.wheld = (txnlock.readers = {})]

AfterLockAcquire(p) == [txnlock EXCEPT !.wheld = TRUE]

\* Unlock / RUnlock by p
AfterUnlock(p) ==
    [w |-> txnlock.w \ {p},
     wheld |-> IF p \in txnlock.w THEN FALSE ELSE txnlock.wheld,
     readers |-> txnlock.readers \ {p}]

\* ------------------------------------------------------------ engine
\* mutant: an engine that never takes its writer mutex
EngineNeverLocks(readonly) == FALSE

\* The engine takes its own writer mutex for a read-write transaction
\* unless its NoLock flag is set.
EngineLocksWriters(readonly) == ~readonly /\ NoLock \notin engine.flags

\* ------------------------------------------------------ retry policy
\* A call's body (the lmdb.TxnOp run by the engine) is an input.  A script
\* fixes its results: MapResized for its first `fails` executions, then
\* `final` for ever.
Scripts ==
    {[scripted |-> TRUE, fails |-> f, final |-> r] :
        f \in 0 .. MaxFails, r \in {OK, EACCES}}
        \cup {[scripted |-> TRUE, fails |-> 0, final |-> MapResized]}

\* The unscripted body: each execution may give any result.
AnyBody == {[scripted |-> FALSE, fails |-> 0, final |-> OK]}

\* the results the next execution of the body of call c can give
BodyResults(c) ==
    IF ~c.scripted THEN {OK, EACCES, MapResized}
    ELSE IF c.bodies < c.fails THEN {MapResized}
    ELSE {c.final}

IsMapResized(err) == err = MapResized

getRetryResize == IF RetryResize # 0 THEN RetryResize ELSE DefaultRetryResize

getDelayRepeatResize(i) ==
    IF DelayRepeatResize # NilFn THEN DelayRepeatResize[i]
    ELSE DefaultDelayRepeatResize

\* mutant: the bound is compared the wrong way round (maxRetry > i)
retryResizedFlipped(i, err) ==
    IF ~IsMapResized(err) THEN FALSE
    ELSE IF getRetryResize <= 0 THEN FALSE
    ELSE IF getRetryResize > i THEN FALSE
    ELSE TRUE

\* mutant: only a negative bound ends the retries (maxRetry < 0)
retryResizedZeroRetries(i, err) ==
    IF ~IsMapResized(err) THEN FALSE
    ELSE IF getRetryResize < 0 THEN FALSE
    ELSE IF getRetryResize < i THEN FALSE
    ELSE TRUE

\* mutant: the IsMapResized test is dropped, any result is retried
retryResizedAnyResult(i, err) ==
    IF getRetryResize <= 0 THEN FALSE
    ELSE IF getRetryResize < i THEN FALSE
    ELSE TRUE

\* retryResized up to its call of setMapSize: TRUE iff the new size is to
\* be adopted and the transaction run again
retryResized(i, err) ==
    IF ~IsMapResized(err) THEN FALSE
    ELSE IF getRetryResize <= 0 THEN FALSE
    ELSE IF getRetryResize < i THEN FALSE
    ELSE TRUE

\* the indexes getDelayRepeatResize may be called with
DelayArgs == 0 .. MaxRetry

\* the delays retryResized may hand to setMapSize: zero for the first
\* attempt, the result of getDelayRepeatResize for the later ones.  The
\* call site, r.getDelayRepeatResize(), gives the getter no argument, so
\* the source does not say which index the delay function is applied to:
\* any index
retryDelay(i) ==
    IF i > 0 THEN {getDelayRepeatResize(j) : j \in DelayArgs} ELSE {0}

\* mutant: the negation is dropped (r.noLock && readonly)
ExclusiveDropsNot(readonly) == noLock /\ readonly

\* mutant: the readonly test is dropped (r.noLock)
ExclusiveWhenNoLock(readonly) == noLock

\* run: the exclusive branch is taken iff r.noLock && !readonly
Exclusive(readonly) == noLock /\ ~readonly

\* the locals of a call: the loop index i, the numbers of fn executions
\* and setMapSize calls so far, err (the error in hand), last (the result
\* of the last fn), aerr (the result of the last setMapSize), the delay
\* and size arguments
NoCall ==
    [api |-> "none", readonly |-> FALSE, scripted |-> FALSE, fails |-> 0,
     final |-> OK, i |-> 0,
     bodies |-> 0, adopts |-> 0, err |-> OK, delay |-> 0, size |-> 0,
     last |-> OK, aerr |-> OK]

\* ------------------------------------------------ transaction calls
\* a panic ends the process: no goroutine takes another step
Fatal == \E p \in Procs : pc[p] = "panic"

\* runRetry is entered: the call's locals are fresh and the body's script
\* is drawn; the loop starts at i = 0 with a call of run
runRetry(p, readonly, S) ==
    /\ ~Fatal
    /\ pc[p] \in {"idle", "done"}
    /\ \E s \in S :
           call' = [call EXCEPT ![p] =
                       [NoCall EXCEPT !.api = "txn", !.readonly = readonly,
                                      !.scripted = s.scripted,
                                      !.fails = s.fails, !.final = s.final]]
    /\ pc' = [pc EXCEPT ![p] = "run"]
    /\ UNCHANGED <<txnlock, engWriter, confVars>>

View(p, S) == runRetry(p, TRUE, S)

Update(p, S) == runRetry(p, FALSE, S)

UpdateLocked(p, S) == runRetry(p, FALSE, S)

\* readonly := flags&lmdb.Readonly != 0
RunTxn(p, S) ==
    \E flags \in SUBSET {"Readonly"} :
        runRetry(p, "Readonly" \in flags, S)

\* where fn starts once run holds txnlock: a read-write transaction first
\* waits for the engine's writer mutex unless the engine does not lock
FnStart(c) == IF EngineLocksWriters(c.readonly) THEN "fn" ELSE "body"

\* run, exclusive branch: r.txnlock.Lock() is called
RunLock(p) ==
    /\ ~Fatal
    /\ pc[p] = "run"
    /\ Exclusive(call[p].readonly)
    /\ CanLock
    /\ txnlock' = AfterLockRequest(p)
    /\ pc' = [pc EXCEPT ![p] = IF txnlock.readers = {} THEN FnStart(call[p])
                               ELSE "run_lockw"]
    /\ UNCHANGED <<call, engWriter, confVars>>

\* run, exclusive branch: the readers have left, Lock returns and fn() is
\* called
RunLockAcq(p) ==
    /\ ~Fatal
    /\ pc[p] = "run_lockw"
    /\ txnlock.readers = {}
    /\ txnlock' = AfterLockAcquire(p)
    /\ pc' = [pc EXCEPT ![p] = FnStart(call[p])]
    /\ UNCHANGED <<call, engWriter, confVars>>

\* run, shared branch: r.txnlock.RLock() returns and fn() is called
RunRLock(p) ==
    /\ ~Fatal
    /\ pc[p] = "run"
    /\ ~Exclusive(call[p].readonly)
    /\ CanRLock
    /\ txnlock' = AfterRLock(p)
    /\ pc' = [pc EXCEPT ![p] = FnStart(call[p])]
    /\ UNCHANGED <<call, engWriter, confVars>>

\* inside fn: the engine grants its writer mutex and the body (op) starts
EngineBegin(p) ==
    /\ ~Fatal
    /\ pc[p] = "fn"
    /\ engWriter = {}
    /\ engWriter' = {p}
    /\ pc' = [pc EXCEPT ![p] = "body"]
    /\ UNCHANGED <<call, txnlock, confVars>>

\* mutant: the shared branch of run returns without RUnlock
FnReturnKeepsRLock(p) ==
    /\ ~Fatal
    /\ pc[p] = "body"
    /\ \E err \in BodyResults(call[p]) :
       LET c == call[p]
           again == retryResized(c.i, err)
       IN /\ \E delay \in IF again THEN retryDelay(c.i) ELSE {0} :
                 call' = [call EXCEPT ![p] =
                             [c EXCEPT !.err = err, !.last = err,
                                       !.bodies = @ + 1, !.delay = delay]]
          /\ pc' = [pc EXCEPT ![p] = IF again THEN "sms" ELSE "done"]
    /\ engWriter' = engWriter \ {p}
    /\ txnlock' = [txnlock EXCEPT !.w = @ \ {p},
                                !.wheld = @ /\ p \notin txnlock.w]
    /\ UNCHANGED confVars

\* mutant: the exclusive branch of run returns without Unlock
FnReturnKeepsLock(p) ==
    /\ ~Fatal
    /\ pc[p] = "body"
    /\ \E err \in BodyResults(call[p]) :
       LET c == call[p]
           again == retryResized(c.i, err)
       IN /\ \E delay \in IF again THEN retryDelay(c.i) ELSE {0} :
                 call' = [call EXCEPT ![p] =
                             [c EXCEPT !.err = err, !.last = err,
                                       !.bodies = @ + 1, !.delay = delay]]
          /\ pc' = [pc EXCEPT ![p] = IF again THEN "sms" ELSE "done"]
    /\ engWriter' = engWriter \ {p}
    /\ txnlock' = [txnlock EXCEPT !.readers = @ \ {p}]
    /\ UNCHANGED confVars

\* fn returns err; run unlocks and returns; runRetry asks retryResized,
\* which either ends the call (return err) or calls setMapSize(0, delay)
FnReturn(p) ==
    /\ ~Fatal
    /\ pc[p] = "body"
    /\ \E err \in BodyResults(call[p]) :
       LET c == call[p]
           again == retryResized(c.i, err)
       IN /\ \E delay \in IF again THEN retryDelay(c.i) ELSE {0} :
                 call' = [call EXCEPT ![p] =
                             [c EXCEPT !.err = err, !.last = err,
                                       !.bodies = @ + 1, !.delay = delay]]
          /\ pc' = [pc EXCEPT ![p] = IF again THEN "sms" ELSE "done"]
    /\ engWriter' = engWriter \ {p}
    /\ txnlock' = AfterUnlock(p)
    /\ UNCHANGED confVars

\* ------------------------------------------------------- setMapSize
\* setMapSize once it holds txnlock: sleep if delay > 0, else call the
\* engine's SetMapSize(0)
SmsLocked(c) == IF c.delay > 0 THEN "sms_sleep" ELSE "sms_call"

\* mutant: setMapSize takes the lock shared (RLock instead of Lock)
SmsLockShared(p) ==
    /\ ~Fatal
    /\ pc[p] = "sms"
    /\ CanRLock
    /\ txnlock' = AfterRLock(p)
    /\ pc' = [pc EXCEPT ![p] = SmsLocked(call[p])]
    /\ UNCHANGED <<call, engWriter, confVars>>

\* setMapSize: r.txnlock.Lock() is called
SmsLock(p) ==
    /\ ~Fatal
    /\ pc[p] = "sms"
    /\ CanLock
    /\ txnlock' = AfterLockRequest(p)
    /\ pc' = [pc EXCEPT ![p] = IF txnlock.readers = {} THEN SmsLocked(call[p])
                               ELSE "sms_lockw"]
    /\ UNCHANGED <<call, engWriter, confVars>>

\* setMapSize: the readers have left and Lock returns
SmsLockAcq(p) ==
    /\ ~Fatal
    /\ pc[p] = "sms_lockw"
    /\ txnlock.readers = {}
    /\ txnlock' = AfterLockAcquire(p)
    /\ pc' = [pc EXCEPT ![p] = SmsLocked(call[p])]
    /\ UNCHANGED <<call, engWriter, confVars>>

\* mutant: the lock is released for the sleep (Unlock before time.Sleep
\* returns)
SmsSleepUnlocked(p) ==
    /\ ~Fatal
    /\ pc[p] = "sms_sleep"
    /\ pc' = [pc EXCEPT ![p] = "sms_call"]
    /\ txnlock' = AfterUnlock(p)
    /\ UNCHANGED <<call, engWriter, confVars>>

\* setMapSize: time.Sleep(delay) returns, r.Env.SetMapSize(0) is called
SmsSleep(p) ==
    /\ ~Fatal
    /\ pc[p] = "sms_sleep"
    /\ pc' = [pc EXCEPT ![p] = "sms_call"]
    /\ UNCHANGED <<call, txnlock, engWriter, confVars>>

\* mutant: setMapSize returns a failure without Unlock, so the panic
\* happens with the lock held
SmsReturnPanicsLocked(p) ==
    /\ ~Fatal
    /\ pc[p] = "sms_call"
    /\ \E e \in {OK, EINVAL} :
           LET c == call[p]
           IN /\ call' = [call EXCEPT ![p] =
                             [c EXCEPT !.adopts = @ + 1, !.aerr = e,
                                       !.err = IF e # OK \/ c.api # "txn"
                                               THEN e ELSE @,
                                       !.i = IF e = OK /\ c.api = "txn"
                                             THEN @ + 1 ELSE @]]
              /\ pc' = [pc EXCEPT ![p] =
                           IF c.api # "txn" THEN "done"
                           ELSE IF e # OK THEN "panic" ELSE "run"]
              /\ txnlock' = IF e # OK THEN txnlock ELSE AfterUnlock(p)
    /\ UNCHANGED <<engWriter, confVars>>

\* mutant: retryResized returns a failure of setMapSize to runRetry, which
\* returns it to the caller as the call's error
SmsReturnNoPanic(p) ==
    /\ ~Fatal
    /\ pc[p] = "sms_call"
    /\ \E e \in {OK, EINVAL} :
           LET c == call[p]
           IN /\ call' = [call EXCEPT ![p] =
                             [c EXCEPT !.adopts = @ + 1, !.aerr = e,
                                       !.err = IF e # OK \/ c.api # "txn"
                                               THEN e ELSE @,
                                       !.i = IF e = OK /\ c.api = "txn"
                                             THEN @ + 1 ELSE @]]
              /\ pc' = [pc EXCEPT ![p] =
                           IF c.api # "txn" \/ e # OK THEN "done" ELSE "run"]
    /\ txnlock' = AfterUnlock(p)
    /\ UNCHANGED <<engWriter, confVars>>

\* setMapSize: r.Env.SetMapSize(0) returns e; Unlock; return e.  In
\* retryResized a failure panics, success makes runRetry loop (i++).  In
\* the public SetMapSize the outer Unlock follows and e is returned.
SmsReturn(p) ==
    /\ ~Fatal
    /\ pc[p] = "sms_call"
    /\ \E e \in {OK, EINVAL} :
           LET c == call[p]
           IN /\ call' = [call EXCEPT ![p] =
                             [c EXCEPT !.adopts = @ + 1, !.aerr = e,
                                       !.err = IF e # OK \/ c.api # "txn"
                                               THEN e ELSE @,
                                       !.i = IF e = OK /\ c.api = "txn"
                                             THEN @ + 1 ELSE @]]
              /\ pc' = [pc EXCEPT ![p] =
                           IF c.api # "txn" THEN "done"
                           ELSE IF e # OK THEN "panic" ELSE "run"]
    /\ txnlock' = AfterUnlock(p)
    /\ UNCHANGED <<engWriter, confVars>>

\* the public SetMapSize(size) is entered
SetMapSize(p) ==
    /\ ~Fatal
    /\ pc[p] \in {"idle", "done"}
    /\ \E size \in {0, 1} :
           call' = [call EXCEPT ![p] =
                       [NoCall EXCEPT !.api = "SetMapSize", !.size = size]]
    /\ pc' = [pc EXCEPT ![p] = "SMS"]
    /\ UNCHANGED <<txnlock, engWriter, confVars>>

\* SetMapSize: r.txnlock.Lock() is called
SMSLock(p) ==
    /\ ~Fatal
    /\ pc[p] = "SMS"
    /\ CanLock
    /\ txnlock' = AfterLockRequest(p)
    /\ pc' = [pc EXCEPT ![p] = IF txnlock.readers = {} THEN "sms"
                               ELSE "SMS_lockw"]
    /\ UNCHANGED <<call, engWriter, confVars>>

\* SetMapSize: the readers have left, Lock returns and
\* r.setMapSize(size, 0) is called
SMSLockAcq(p) ==
    /\ ~Fatal
    /\ pc[p] = "SMS_lockw"
    /\ txnlock.readers = {}
    /\ txnlock' = AfterLockAcquire(p)
    /\ pc' = [pc EXCEPT ![p] = "sms"]
    /\ UNCHANGED <<call, engWriter, confVars>>

\* ------------------------------------------------- specifications
\* the Env after NewEnv and Open, before any transaction
InitEnv ==
    /\ pc = [p \in Procs |-> "idle"]
    /\ call = [p \in Procs |-> NoCall]
    /\ txnlock = FreeLock
    /\ engWriter = {}
    /\ noLock \in BOOLEAN
    /\ engine = [alloc |-> TRUE, open |-> TRUE,
                 flags |-> IF noLock THEN {NoLock} ELSE {}]
    /\ wrapped = TRUE
    /\ lastCall = [op |-> "none", flags |-> {}, engErr |-> OK, ret |-> OK,
                   before |-> FALSE]

\* the Env as NewEnv leaves it: RetryResize and DelayRepeatResize hold
\* their zero values, the package default is the documented 2
Init ==
    /\ InitEnv
    /\ RetryResize = 0
    /\ DefaultRetryResize = 2
    /\ DelayRepeatResize = NilFn

Next ==
    \E p \in Procs :
        \/ View(p, AnyBody)
        \/ Update(p, AnyBody)
        \/ UpdateLocked(p, AnyBody)
        \/ RunTxn(p, AnyBody)
        \/ RunLock(p)
        \/ RunLockAcq(p)
        \/ RunRLock(p)
        \/ EngineBegin(p)
        \/ FnReturn(p)
        \/ SmsLock(p)
        \/ SmsLockAcq(p)
        \/ SmsSleep(p)
        \/ SmsReturn(p)
        \/ SetMapSize(p)
        \/ SMSLock(p)
        \/ SMSLockAcq(p)

Spec == Init /\ [][Next]_vars

InitRetry ==
    /\ InitEnv
    /\ RetryResize \in -1 .. MaxRetry
    /\ DefaultRetryResize \in {-1, 0, 2}
    /\ DelayRepeatResize \in {NilFn} \cup DelayFns

\* one goroutine: its Lock calls never find a reader to wait for
NextRetry ==
    \/ View(1, Scripts)
    \/ Update(1, Scripts)
    \/ UpdateLocked(1, Scripts)
    \/ RunTxn(1, Scripts)
    \/ RunLock(1)
    \/ RunRLock(1)
    \/ EngineBegin(1)
    \/ FnReturn(1)
    \/ SmsLock(1)
    \/ SmsSleep(1)
    \/ SmsReturn(1)

SpecRetry == InitRetry /\ [][NextRetry]_vars

\* ---------------------------------------------- environment setup
\* The engine's calls, as the wrapper sees them: the set of outcomes
\* [eng |-> the engine afterwards, flags |-> flags returned, err |-> error].
\* A failed call leaves the engine's flags as they were.

\* Env.Flags(): fails with EINVAL while the environment is not open
EngineFlags(eng) ==
    IF ~eng.open THEN {[eng |-> eng, flags |-> {}, err |-> EINVAL]}
    ELSE {[eng |-> eng, flags |-> eng.flags, err |-> OK],
          [eng |-> eng, flags |-> {}, err |-> EACCES]}

\* Env.Open(path, flags, mode): opens an environment that is not open and
\* adds flags to its flags
EngineOpen(eng, flags) ==
    {[eng |-> eng, flags |-> {}, err |-> e] : e \in {EINVAL, EACCES}}
        \cup (IF eng.open THEN {}
              ELSE {[eng |-> [eng EXCEPT !.open = TRUE,
                                         !.flags = @ \cup flags],
                     flags |-> {}, err |-> OK]})

\* Env.SetFlags(flags)
EngineSetFlags(eng, flags) ==
    {[eng |-> eng, flags |-> {}, err |-> EINVAL],
     [eng |-> [eng EXCEPT !.flags = @ \cup flags], flags |-> {}, err |-> OK]}

\* Env.UnsetFlags(flags)
EngineUnsetFlags(eng, flags) ==
    {[eng |-> eng, flags |-> {}, err |-> EINVAL],
     [eng |-> [eng EXCEPT !.flags = @ \ flags], flags |-> {}, err |-> OK]}

\* lmdb.NewEnv(): a fresh environment, not open, no flag set
FreshEngine == [alloc |-> TRUE, open |-> FALSE, flags |-> {}]

\* mutant: Open looks at the flags before it looks at err
OpenNoLockIgnoresErr(old, flags, err) ==
    IF NoLock \in flags THEN TRUE ELSE old

\* r.noLock after Open(path, flags, mode) whose underlying call gave err
OpenNoLock(old, flags, err) ==
    IF err # OK THEN old
    ELSE IF NoLock \in flags THEN TRUE ELSE old

\* r.noLock after SetFlags(flags) whose underlying call gave err
SetFlagsNoLock(old, flags, err) ==
    IF err # OK THEN old
    ELSE IF NoLock \in flags THEN TRUE ELSE old

\* mutant: UnsetFlags clears noLock whatever flags it was given
UnsetFlagsNoLockAny(old, flags, err) ==
    IF err # OK THEN old ELSE FALSE

\* r.noLock after UnsetFlags(flags) whose underlying call gave err
UnsetFlagsNoLock(old, flags, err) ==
    IF err # OK THEN old
    ELSE IF NoLock \in flags THEN FALSE ELSE old

txnVars == <<pc, call, txnlock, engWriter, RetryResize, DefaultRetryResize,
             DelayRepeatResize>>

\* mutant: NewEnv returns every failure of the probe, EINVAL too
NewEnvErrStrict(err) == err

\* NewEnv: the error left after the probe env.Flags() gave err; EINVAL (the
\* environment is not open yet) is forgiven
NewEnvErr(err) == IF err = EINVAL THEN OK ELSE err

\* NewEnv(env): allocate the engine if env is nil, probe its flags,
\* forgive EINVAL, and build the Env
NewEnv ==
    /\ ~wrapped
    /\ \E a \in (IF engine.alloc THEN {OK} ELSE {OK, EACCES}) :
           IF a # OK
           THEN /\ lastCall' = [op |-> "NewEnv", flags |-> {}, engErr |-> a,
                                ret |-> a, before |-> noLock]
                /\ UNCHANGED <<engine, wrapped, noLock>>
           ELSE \E r \in EngineFlags(IF engine.alloc THEN engine
                                     ELSE FreshEngine) :
                    LET err == NewEnvErr(r.err)
                    IN /\ engine' = r.eng
                       /\ wrapped' = (err = OK)
                       /\ noLock' = IF err = OK THEN NoLock \in r.flags
                                    ELSE noLock
                       /\ lastCall' = [op |-> "NewEnv", flags |-> r.flags,
                                       engErr |-> r.err, ret |-> err,
                                       before |-> noLock]
    /\ UNCHANGED txnVars

Open ==
    /\ wrapped
    /\ \E flags \in FlagWords : \E r \in EngineOpen(engine, flags) :
           /\ engine' = r.eng
           /\ noLock' = OpenNoLock(noLock, flags, r.err)
           /\ lastCall' = [op |-> "Open", flags |-> flags, engErr |-> r.err,
                           ret |-> r.err, before |-> noLock]
    /\ UNCHANGED <<wrapped, txnVars>>

SetFlags ==
    /\ wrapped
    /\ \E flags \in FlagWords : \E r \in EngineSetFlags(engine, flags) :
           /\ engine' = r.eng
           /\ noLock' = SetFlagsNoLock(noLock, flags, r.err)
           /\ lastCall' = [op |-> "SetFlags", flags |-> flags,
                           engErr |-> r.err, ret |-> r.err,
                           before |-> noLock]
    /\ UNCHANGED <<wrapped, txnVars>>

UnsetFlags ==
    /\ wrapped
    /\ \E flags \in FlagWords : \E r \in EngineUnsetFlags(engine, flags) :
           /\ engine' = r.eng
           /\ noLock' = UnsetFlagsNoLock(noLock, flags, r.err)
           /\ lastCall' = [op |-> "UnsetFlags", flags |-> flags,
                           engErr |-> r.err, ret |-> r.err,
                           before |-> noLock]
    /\ UNCHANGED <<wrapped, txnVars>>

\* before NewEnv: the caller holds nil, a fresh environment, or an open
\* one with any flags
InitFlags ==
    /\ pc = [p \in Procs |-> "idle"]
    /\ call = [p \in Procs |-> NoCall]
    /\ txnlock = FreeLock
    /\ engWriter = {}
    /\ RetryResize = 0
    /\ DefaultRetryResize = 2
    /\ DelayRepeatResize = NilFn
    /\ wrapped = FALSE
    /\ noLock = FALSE
    /\ engine \in {[alloc |-> FALSE, open |-> FALSE, flags |-> {}], FreshEngine}
                   \cup {[alloc |-> TRUE, open |-> TRUE, flags |-> f] :
                            f \in FlagWords}
    /\ lastCall = [op |-> "none", flags |-> {}, engErr |-> OK, ret |-> OK,
                   before |-> FALSE]

NextFlags == NewEnv \/ Open \/ SetFlags \/ UnsetFlags

SpecFlags == InitFlags /\ [][NextFlags]_vars

\* ------------------------------------------------------ properties
\* fn() of p's call is in progress (run has called it, it has not returned)
InFn(p) == pc[p] \in {"fn", "body"}

\* the transaction body (op) of p's call is executing
InBody(p) == pc[p] = "body"

\* p's transaction call has returned
Returned(p) == pc[p] = "done" /\ call[p].api = "txn"

\* the first execution of the body of p's call gives MapResized
FailsFirst(p) ==
    call[p].scripted /\ (call[p].fails >= 1 \/ call[p].final = MapResized)

\* q is on an exclusive path: a map-size change (setMapSize, SetMapSize),
\* or a read-write transaction under noLock
ExclusiveCaller(q) ==
    \/ pc[q] \in {"sms", "sms_lockw", "sms_sleep", "sms_call", "SMS",
                  "SMS_lockw"}
    \/ /\ pc[q] \in {"run_lockw", "fn", "body"}
       /\ noLock
       /\ ~call[q].readonly

\* p is a read-only call that RLock keeps waiting
ReaderWaits(p) == pc[p] = "run" /\ call[p].readonly /\ ~CanRLock

\* C1: with noLock set, whenever the fn() of two calls are in progress at
\* the same time, both are read-only: no read-write body runs beside any
\* other body.
NoLockExclusion ==
    noLock =>
        \A p, q \in Procs :
            (p # q /\ InFn(p) /\ InFn(q)) =>
                (call[p].readonly /\ call[q].readonly)

\* C1 witness: under noLock a read-write body executes while a read-only
\* call and another read-write call wait to start.
NoLockWriterRuns ==
    /\ noLock
    /\ \E p, q, r \in Procs :
           /\ p # q /\ p # r /\ q # r
           /\ InBody(p) /\ ~call[p].readonly
           /\ pc[q] = "run" /\ call[q].readonly
           /\ pc[r] = "run" /\ ~call[r].readonly

\* C2: while a goroutine is inside the engine's SetMapSize call, no fn() of
\* any other call is in progress and no other goroutine is inside the
\* engine's SetMapSize call, in either lock mode.
MapSizeExclusion ==
    \A p, q \in Procs :
        (p # q /\ pc[p] = "sms_call") => (~InFn(q) /\ pc[q] # "sms_call")

\* C2 witness: the retry driver of one caller is inside the engine's
\* SetMapSize call while a second caller waits to adopt and a third waits
\* to run its transaction.
AdoptionWhileOthersWait ==
    \E p, q, r \in Procs :
        /\ p # q /\ p # r /\ q # r
        /\ pc[p] = "sms_call" /\ call[p].api = "txn"
        /\ pc[q] = "sms" /\ call[q].api = "txn"
        /\ pc[r] = "run"

\* C3: with noLock unset, two read-write transaction bodies never execute
\* at the same time.
WriterExclusion ==
    ~noLock =>
        \A p, q \in Procs :
            (p # q /\ InBody(p) /\ InBody(q)) =>
                (call[p].readonly \/ call[q].readonly)

\* C3 witness: with noLock unset a read-write body executes while a second
\* read-write call, which also holds txnlock shared, waits inside fn().
WriterWaitsInEngine ==
    /\ ~noLock
    /\ \E p, q \in Procs :
           /\ p # q
           /\ InBody(p) /\ ~call[p].readonly /\ p \in txnlock.readers
           /\ pc[q] = "fn" /\ ~call[q].readonly /\ q \in txnlock.readers

\* C4 (as amended): the writer side of txnlock is only ever owned by a
\* caller on an exclusive path, so a read-only call that has to wait waits
\* for a map-size change or for a read-write transaction under noLock that
\* holds the lock or has asked for it; it never waits for a read-only call
\* or for a read-write call with noLock unset.
ReadersWaitOnlyForExclusive ==
    /\ \A q \in txnlock.w : ExclusiveCaller(q)
    /\ \A p \in Procs :
           ReaderWaits(p) => \E q \in txnlock.w : q # p /\ ExclusiveCaller(q)

\* C4 witness: under noLock two read-only bodies execute at the same time
\* while a read-write call has asked for the lock and waits for them.
TwoReadOnlyBodies ==
    /\ noLock
    /\ \E p, q, r \in Procs :
           /\ p # q /\ p # r /\ q # r
           /\ InBody(p) /\ call[p].readonly
           /\ InBody(q) /\ call[q].readonly
           /\ pc[r] = "run_lockw" /\ r \in txnlock.w

\* C4 (original statement): a read-only call that has to wait waits for a
\* caller that holds the lock exclusively.
ReadersWaitOnlyForHolder ==
    \A p \in Procs :
        ReaderWaits(p) =>
            \E q \in txnlock.w : txnlock.wheld /\ ExclusiveCaller(q)

\* C5: a returned call whose body gives MapResized exactly k times and
\* then succeeds, run with the retry bound k+1, returned success after k
\* adoptions and k+1 executions of the body.
RetryThenSuccess ==
    \A p \in Procs :
        (/\ Returned(p)
         /\ call[p].scripted
         /\ call[p].final = OK
         /\ getRetryResize = call[p].fails + 1) =>
            /\ call[p].err = OK
            /\ call[p].adopts = call[p].fails
            /\ call[p].bodies = call[p].fails + 1

\* C5 witness: a call with k = 2 and RetryResize = 3 has returned success.
RetriedTwiceThenSuccess ==
    \E p \in Procs :
        /\ Returned(p)
        /\ call[p].scripted /\ call[p].final = OK /\ call[p].fails = 2
        /\ RetryResize = 3
        /\ call[p].err = OK /\ call[p].adopts = 2

\* C6 (the claim): with a positive retry bound n, a returned call whose body
\* always gives MapResized returned MapResized after exactly n adoptions.
ExhaustedAfterBound ==
    \A p \in Procs :
        (/\ Returned(p)
         /\ call[p].scripted
         /\ call[p].final = MapResized
         /\ getRetryResize > 0) =>
            /\ call[p].err = MapResized
            /\ call[p].adopts = getRetryResize

\* C7 (the claim): with a negative retry bound, a returned call whose body
\* gives MapResized 5 times and then succeeds returned success.
NegativeBoundRetries ==
    \A p \in Procs :
        (/\ Returned(p)
         /\ call[p].scripted
         /\ call[p].final = OK
         /\ call[p].fails = 5
         /\ getRetryResize < 0) =>
            call[p].err = OK

\* C8 (as amended): with RetryResize = 0 and DefaultRetryResize = 0, so that
\* the bound in force is 0, a returned call whose body gave MapResized
\* returned it after one execution of the body and no adoption.
ZeroBoundNoRetry ==
    \A p \in Procs :
        (/\ Returned(p)
         /\ FailsFirst(p)
         /\ RetryResize = 0
         /\ DefaultRetryResize = 0) =>
            /\ call[p].err = MapResized
            /\ call[p].bodies = 1
            /\ call[p].adopts = 0

\* C8 witness: such a call has returned, with both bounds 0.
ZeroBoundReturned ==
    \E p \in Procs :
        /\ Returned(p)
        /\ FailsFirst(p)
        /\ RetryResize = 0 /\ DefaultRetryResize = 0
        /\ call[p].err = MapResized /\ call[p].bodies = 1

\* C8 (original statement): with RetryResize = 0 and DefaultRetryResize
\* left at 2, a returned call whose body gave MapResized returned it after
\* one execution of the body and no adoption.
ZeroOverrideNoRetry ==
    \A p \in Procs :
        (/\ Returned(p)
         /\ FailsFirst(p)
         /\ RetryResize = 0
         /\ DefaultRetryResize = 2) =>
            /\ call[p].err = MapResized
            /\ call[p].bodies = 1
            /\ call[p].adopts = 0

\* the last setup call was Open, SetFlags or UnsetFlags and its underlying
\* call failed
FlagCallFailed ==
    /\ lastCall.op \in {"Open", "SetFlags", "UnsetFlags"}
    /\ lastCall.engErr # OK

\* C9: after an Open, SetFlags or UnsetFlags whose underlying call failed,
\* noLock is what it was before the call and the call returned the
\* underlying error.
FailedFlagCallKeepsNoLock ==
    FlagCallFailed =>
        /\ noLock = lastCall.before
        /\ lastCall.ret = lastCall.engErr

\* C9 witness: an Open that asked for NoLock failed while noLock was unset.
FailedOpenWithNoLock ==
    /\ FlagCallFailed
    /\ lastCall.op = "Open"
    /\ NoLock \in lastCall.flags
    /\ ~lastCall.before
    /\ lastCall.ret = EACCES

SetMapSizeStep(p) ==
    \/ SMSLock(p)
    \/ SMSLockAcq(p)
    \/ SmsLock(p)
    \/ SmsLockAcq(p)
    \/ SmsSleep(p)
    \/ SmsReturn(p)

\* no call other than that of p is in progress
OnlyCall(p) == \A q \in Procs : q # p => pc[q] \in {"idle", "done"}

\* C11 (the claim): a public SetMapSize call blocks only while transactions
\* are in progress: whenever the call has not returned and no other call is
\* in progress, the call can take its next step.
SetMapSizeProceeds ==
    \A p \in Procs :
        (/\ call[p].api = "SetMapSize"
         /\ pc[p] # "done"
         /\ OnlyCall(p)) => ENABLED SetMapSizeStep(p)

\* C12: a returned call whose first body execution gave a result other
\* than MapResized (a failure or success) executed the body exactly once,
\* made no adoption and returned that same result, whatever the retry
\* configuration.
OtherResultReturnedAtOnce ==
    \A p \in Procs :
        (/\ Returned(p)
         /\ call[p].scripted
         /\ call[p].fails = 0
         /\ call[p].final # MapResized) =>
            /\ call[p].err = call[p].final
            /\ call[p].bodies = 1
            /\ call[p].adopts = 0

\* C12 witness: with a positive retry bound in force, a call whose body
\* fails with EACCES on its first execution has returned EACCES.
FailureReturnedAtOnce ==
    \E p \in Procs :
        /\ Returned(p)
        /\ call[p].scripted /\ call[p].fails = 0 /\ call[p].final = EACCES
        /\ getRetryResize > 0
        /\ call[p].err = EACCES /\ call[p].bodies = 1

\* C13: a transaction call ends by returning or by a panic, never both.  A
\* returned call returns the result of its last body execution, and a
\* returned MapResized is one that retryResized declined to retry; a panic
\* carries the failure of an adoption; and a call whose adoption failed is
\* in the panic: it has not returned and runs no further body.
OutcomeOfCall ==
    \A p \in Procs :
        call[p].api = "txn" =>
            /\ Returned(p) =>
                   /\ call[p].bodies >= 1
                   /\ call[p].err = call[p].last
                   /\ call[p].aerr = OK
                   /\ IsMapResized(call[p].err) =>
                          ~retryResized(call[p].i, call[p].err)
            /\ pc[p] = "panic" =>
                   /\ call[p].aerr # OK
                   /\ call[p].err = call[p].aerr
                   /\ IsMapResized(call[p].last)
            /\ call[p].aerr # OK => pc[p] = "panic"

\* C13 witness: a call whose body gave MapResized twice has panicked with
\* the failure of its second adoption, after two body executions.
SecondAdoptionFailed ==
    \E p \in Procs :
        /\ pc[p] = "panic"
        /\ call[p].api = "txn"
        /\ call[p].aerr = EINVAL
        /\ call[p].adopts = 2
        /\ call[p].bodies = 2

\* the size setMapSize hands to r.Env.SetMapSize, given its size argument
EngineSize(size) == 0

\* C14 (the claim): the size handed to the engine on behalf of a public
\* SetMapSize(size) call is the caller's size: once the call is inside
\* setMapSize, the argument of the engine's SetMapSize is call[p].size.
SetMapSizePassesSize ==
    \A p \in Procs :
        (/\ call[p].api = "SetMapSize"
         /\ pc[p] \in {"sms", "sms_lockw", "sms_sleep", "sms_call"}) =>
            EngineSize(call[p].size) = call[p].size

\* C15: from the start of setMapSize's sleep until the engine's SetMapSize
\* has returned and the lock is released, the sleeping caller holds txnlock
\* exclusively, no reader holds it, and no fn() of another call has started
\* or is in progress.
SleepHoldsLock ==
    \A p \in Procs :
        pc[p] \in {"sms_sleep", "sms_call"} =>
            /\ txnlock.w = {p}
            /\ txnlock.wheld
            /\ txnlock.readers = {}
            /\ \A q \in Procs : q # p => ~InFn(q)

\* C15 witness: a caller sleeps before its second adoption while another
\* call waits to run its transaction and a third waits to adopt.
SleepWhileOthersWait ==
    \E p, q, r \in Procs :
        /\ p # q /\ p # r /\ q # r
        /\ pc[p] = "sms_sleep" /\ call[p].delay > 0 /\ call[p].i = 1
        /\ pc[q] = "run"
        /\ pc[r] = "sms"

\* a call of p's retry driver is inside setMapSize
InAdoption(p) ==
    /\ call[p].api = "txn"
    /\ pc[p] \in {"sms", "sms_lockw", "sms_sleep", "sms_call"}

\* C16 (the claim): the adoption after attempt 0 uses the delay 0; the
\* adoption after attempt i >= 1 uses the Env's delay function applied to
\* i, or the default delay when the Env has no delay function.
DelayFollowsAttempt ==
    \A p \in Procs :
        InAdoption(p) =>
            call[p].delay =
                IF call[p].i = 0 THEN 0
                ELSE IF DelayRepeatResize = NilFn
                     THEN DefaultDelayRepeatResize
                     ELSE DelayRepeatResize[call[p].i]

\* C17: within one transaction call the caller holds no part of txnlock
\* when it asks for the exclusive lock of an adoption, and never holds it
\* shared while it waits for or holds the exclusive lock; and the k+1-th
\* body execution is preceded by exactly k adoptions of that call, all
\* successful, one after each of the k earlier executions.
ReleaseBeforeAdoption ==
    \A p \in Procs :
        call[p].api = "txn" =>
            /\ pc[p] = "sms" =>
                   p \notin txnlock.readers /\ p \notin txnlock.w
            /\ InAdoption(p) =>
                   /\ p \notin txnlock.readers
                   /\ call[p].bodies = call[p].i + 1
                   /\ call[p].adopts = call[p].i
            /\ pc[p] \in {"run", "run_lockw", "fn", "body"} =>
                   /\ call[p].bodies = call[p].i
                   /\ call[p].adopts = call[p].i
                   /\ call[p].aerr = OK

\* C17 witness: a call executes its body for the third time, after two
\* adoptions, while another call executes its body too.
ThirdExecution ==
    \E p, q \in Procs :
        /\ p # q
        /\ InBody(p) /\ call[p].bodies = 2 /\ call[p].adopts = 2
        /\ InBody(q)

\* ------------------------------------------- transactions, with fairness
\* the number of goroutines that make calls in SpecLive
NLive == 2

LiveProcs == 1 .. NLive

\* transaction calls only: no goroutine calls the public SetMapSize
NextLive ==
    \E p \in LiveProcs :
        \/ View(p, AnyBody)
        \/ Update(p, AnyBody)
        \/ UpdateLocked(p, AnyBody)
        \/ RunTxn(p, AnyBody)
        \/ RunLock(p)
        \/ RunLockAcq(p)
        \/ RunRLock(p)
        \/ EngineBegin(p)
        \/ FnReturn(p)
        \/ SmsLock(p)
        \/ SmsLockAcq(p)
        \/ SmsSleep(p)
        \/ SmsReturn(p)

\* Bodies, sleeps and engine calls end, and a Lock that waits for readers
\* returns once they have left (weak fairness).  The mutexes grant waiting
\* acquisitions fairly: a goroutine that could take the lock again and
\* again does take it (strong fairness on RLock, Lock and the engine's
\* writer mutex).  Nothing obliges a goroutine to make a call.
FairLive ==
    \A p \in LiveProcs :
        /\ WF_vars(FnReturn(p))
        /\ WF_vars(RunLockAcq(p))
        /\ WF_vars(SmsLockAcq(p))
        /\ WF_vars(SmsSleep(p))
        /\ WF_vars(SmsReturn(p))
        /\ SF_vars(RunRLock(p))
        /\ SF_vars(RunLock(p))
        /\ SF_vars(SmsLock(p))
        /\ SF_vars(EngineBegin(p))

SpecLive == Init /\ [][NextLive]_vars /\ FairLive

\* C18: every View, Update, UpdateLocked or RunTxn call that has been made
\* eventually returns, in either lock mode and whatever mix of MapResized
\* and other results its bodies give, unless an adoption fails (which ends
\* the process).
CallsReturn ==
    \A p \in LiveProcs :
        (pc[p] = "run") ~> (pc[p] = "done" \/ Fatal)

\* C18 witness: a call has returned after two adoptions while the body of
\* another call, itself retried, executes.
ReturnedBesideRetry ==
    \E p, q \in LiveProcs :
        /\ p # q
        /\ Returned(p) /\ call[p].adopts = 2
        /\ InBody(q) /\ call[q].adopts >= 1

\* goroutine p is not inside a call: it has made none, its call has
\* returned, or its call has panicked
Outside(p) == pc[p] \in {"idle", "done", "panic"}

\* C19: a goroutine whose transaction call has returned or whose adoption
\* has panicked holds txnlock neither shared nor exclusive, so that the
\* lock is free whenever no call is in progress; in particular the panic
\* of a failed adoption happens after setMapSize has released the lock.
LockBalanced ==
    /\ \A p \in Procs :
           Outside(p) => p \notin txnlock.readers /\ p \notin txnlock.w
    /\ (\A p \in Procs : Outside(p)) => txnlock = FreeLock

\* C19 witness: an adoption has failed and panicked, the other goroutines
\* have returned from transaction calls, and the lock is free.
PanicLeavesLockFree ==
    \E p \in Procs :
        /\ pc[p] = "panic"
        /\ call[p].aerr # OK
        /\ \A q \in Procs : q # p => Returned(q)
        /\ txnlock = FreeLock

\* C20: right after a NewEnv call: if the probe failed with EINVAL, NewEnv
\* returned an Env with noLock unset; if the probe (or the allocation)
\* failed otherwise, NewEnv returned that failure and no Env; if the probe
\* succeeded, NewEnv returned an Env whose noLock is the NoLock bit of the
\* probed flags.
NewEnvProbe ==
    lastCall.op = "NewEnv" =>
        /\ lastCall.engErr = EINVAL =>
               wrapped /\ lastCall.ret = OK /\ ~noLock
        /\ lastCall.engErr \notin {OK, EINVAL} =>
               ~wrapped /\ lastCall.ret = lastCall.engErr
        /\ lastCall.engErr = OK =>
               /\ wrapped
               /\ lastCall.ret = OK
               /\ noLock = (NoLock \in lastCall.flags)

\* C20 witness: NewEnv has wrapped an environment that is not open: the
\* probe gave EINVAL and NewEnv returned an Env.
NewEnvBeforeOpen ==
    /\ lastCall.op = "NewEnv"
    /\ lastCall.engErr = EINVAL
    /\ ~engine.open
    /\ wrapped

====
